---- MODULE Spec2Model ----
(***************************************************************************)
(* Run lifecycle of proWES: admission of POST /runs (workflow_runs.py),    *)
(* the background tracker (tasks/track_run_progress.py), the document     *)
(* store connector (utils/db.py) and the query controllers get_run_log,   *)
(* get_run_status, cancel_run and list_runs (workflow_runs.py).           *)
(*                                                                         *)
(* The runs collection is the sequence docs, in insertion order.  Python's *)
(* None is the string None.  A request that carries no user_id has        *)
(* user_id = None (kwargs.get('user_id', None)).                           *)
(***************************************************************************)
EXTENDS Integers, Sequences, FiniteSets, TLC

\* ------------------------------------------------------------------ bounds
\* number of run identifiers generate_id can mint (id_charset ^ id_length)
NumIds == 2
\* db_insert_attempts of the configuration, scaled down
DbInsertAttempts == 2
\* largest page_size a list_runs request carries
MaxPageSize == 2
\* number of POST /runs handlers that run at the same time
NumHandlers == 2

\* --------------------------------------------------------------- constants
None == "None"
\* the None of an identifier field (WesEndpoint.run_id, a run_id not given)
NoId == 0
\* user_id of a request: None when the request carries none
Requesters == {None, "alice", "bob"}
\* user_id of the POST /runs requests, the owners of the documents
Owners == {None, "alice"}
IdSpace == 1..NumIds

\* models.py State: the ten states of the enumerator
ALL ==
  {"UNKNOWN", "QUEUED", "INITIALIZING", "RUNNING", "PAUSED", "COMPLETE",
   "EXECUTOR_ERROR", "SYSTEM_ERROR", "CANCELED", "CANCELING"}

\* An is_finished that takes CANCELING for finished.
is_finished_or_canceling(state) ==
  state \in {"COMPLETE", "EXECUTOR_ERROR", "SYSTEM_ERROR", "CANCELED",
             "CANCELING"}

\* models.py State.is_finished
is_finished(state) ==
  state \in {"COMPLETE", "EXECUTOR_ERROR", "SYSTEM_ERROR", "CANCELED"}

\* models.py State.is_cancelable
is_cancelable(state) ==
  state \in {"QUEUED", "INITIALIZING", "RUNNING", "PAUSED"}

VARIABLES
  docs,       \* runs collection: sequence of documents in insertion order
  dirs,       \* run ids whose work_dir exists under storage_path
  inflight,   \* task ids of POST /runs handlers between insert and forward
  tracker,    \* task id -> state of the enqueued task__track_run_progress
  cancel_requests,  \* remote run ids the upstream received a cancel for
  resp,       \* the HTTP response of the step, NoResp if it gave none
  pager,      \* a client walking the pages of GET /runs
  creating,   \* POST /runs handlers inside _create_run_environment
  service_info,  \* service_info collection: documents in insertion order
  info_resp,  \* the answer of the last service-info operation
  run_request,  \* the form _validate_run_request was given, and its outcome
  poll        \* the locals of one execution of the tracker's polling loop

vars == <<docs, dirs, inflight, tracker, cancel_requests, resp, pager,
          creating, service_info, info_resp, run_request, poll>>

\* ---------------------------------------------------------- the collection
\* DbDocument() of models.py as inserted with exclude_none: state UNKNOWN,
\* no outputs, wes_endpoint without run_id
DbDocument(oid, run_id, task_id, user_id) ==
  [oid |-> oid, run_id |-> run_id, task_id |-> task_id, user_id |-> user_id,
   state |-> "UNKNOWN", outputs |-> None, wes_run_id |-> NoId]

\* the _id pymongo gives a document on insert: ObjectIds grow with the
\* insertion order of one writer
NextObjectId(ds) == Len(ds) + 1

\* celery.uuid(): a fresh task identifier
uuid(ds) == Len(ds) + 1

\* collection.find_one({'task_id': task_id}): index of the document, 0 if none
FindByTaskId(ds, task_id) ==
  IF \E i \in 1..Len(ds) : ds[i].task_id = task_id
  THEN CHOOSE i \in 1..Len(ds) :
         /\ ds[i].task_id = task_id
         /\ \A j \in 1..Len(ds) : ds[j].task_id = task_id => i <= j
  ELSE 0

\* A find_one whose filter does not constrain run_log.run_id: the first
\* document of the collection, whatever run_id is asked for.
FindByRunIdUnfiltered(ds, run_id) == IF Len(ds) > 0 THEN 1 ELSE 0

\* collection.find_one({'run_log.run_id': run_id}): index of the document,
\* 0 if none
FindByRunId(ds, run_id) ==
  IF \E i \in 1..Len(ds) : ds[i].run_id = run_id
  THEN CHOOSE i \in 1..Len(ds) :
         /\ ds[i].run_id = run_id
         /\ \A j \in 1..Len(ds) : ds[j].run_id = run_id => i <= j
  ELSE 0

\* A state written as the enumerator's repr instead of its value.
update_run_state_repr(ds, task_id, state) ==
  LET i == FindByTaskId(ds, task_id) IN
  IF i = 0 THEN ds ELSE [ds EXCEPT ![i].state = "State." \o state]

\* An update_run_state whose filter does not name the task: the state is
\* set in every document.
update_run_state_every_task(ds, task_id, state) ==
  IF state \notin ALL THEN ds
  ELSE [i \in 1..Len(ds) |-> [ds[i] EXCEPT !.state = state]]

\* An update_run_state without the State(state) of lines 79-82.
update_run_state_unvalidated(ds, task_id, state) ==
  LET i == FindByTaskId(ds, task_id) IN
  IF i = 0 THEN ds ELSE [ds EXCEPT ![i].state = state]

\* DbDocumentConnector.update_run_state: State(state) must validate, then
\* $set run_log.state on the document of the connector's task
update_run_state(ds, task_id, state) ==
  LET i == FindByTaskId(ds, task_id) IN
  IF state \notin ALL \/ i = 0 THEN ds
  ELSE [ds EXCEPT ![i].state = state]

\* update_run_state, lines 79-82: State(state) raises for a value that is
\* none of the enumerator's, re-raised as ValueError
update_run_state_raises(state) == state \notin ALL

\* An upsert that writes nothing.
upsert_nothing(ds, task_id, remote_run_id) == ds

\* An upsert that replaces the document by the copy its caller holds, which
\* has the fields of DbDocument() but for the one written.
upsert_replacing_document(ds, task_id, remote_run_id) ==
  LET i == FindByTaskId(ds, task_id) IN
  IF i = 0 THEN ds
  ELSE [ds EXCEPT ![i] = [DbDocument(@.oid, @.run_id, @.task_id, @.user_id)
                            EXCEPT !.wes_run_id = remote_run_id]]

\* DbDocumentConnector.upsert_fields_in_root_object(root='wes_endpoint',
\* run_id=...): $set wes_endpoint.run_id on the document of the task
upsert_wes_endpoint_run_id(ds, task_id, remote_run_id) ==
  LET i == FindByTaskId(ds, task_id) IN
  IF i = 0 THEN ds ELSE [ds EXCEPT ![i].wes_run_id = remote_run_id]

\* DbDocumentConnector.upsert_fields_in_root_object(root='run_log',
\* outputs=...): $set run_log.outputs on the document of the task
upsert_run_log_outputs(ds, task_id, outputs) ==
  LET i == FindByTaskId(ds, task_id) IN
  IF i = 0 THEN ds ELSE [ds EXCEPT ![i].outputs = outputs]

\* upsert_fields_in_root_object, lines 98-106: DbDocument(**None) fails when
\* find_one_and_update found no document, re-raised as ValueError
upsert_raises(ds, task_id) == FindByTaskId(ds, task_id) = 0

\* ------------------------------------------------------------- POST /runs
\* resp is what the step handed to a client: the handler (op), the request's
\* user_id and run_id (for POST /runs the run the handler worked on), the
\* answer of the upstream call the handler made (with the status_code of an
\* ErrorResponse), the HTTP status, the
\* exception that ended the handler and the body's run_id and state.  A
\* step that answers no client leaves NoResp.
NoResp == [op |-> "none", user_id |-> None, run_id |-> NoId,
           upstream |-> None, upstream_code |-> 0, status |-> 0, exc |-> None,
           body_run_id |-> NoId, body_state |-> None]

Response(op, user_id, run_id, upstream, status, exc, body_run_id, body_state) ==
  [op |-> op, user_id |-> user_id, run_id |-> run_id, upstream |-> upstream,
   upstream_code |-> 0, status |-> status, exc |-> exc,
   body_run_id |-> body_run_id, body_state |-> body_state]

\* A runs collection without unique indexes: no insert is refused.
DuplicateKeyError_no_index(ds, run_id, task_id) == FALSE

\* The unique indexes of the runs collection, on task_id and on
\* run_log.run_id: TRUE when the insert of a document with these
\* identifiers raises DuplicateKeyError.
DuplicateKeyError(ds, run_id, task_id) ==
  \E i \in 1..Len(ds) : ds[i].run_id = run_id \/ ds[i].task_id = task_id

\* WorkflowRuns._create_run_environment: every result the loop can end
\* with from the given attempt on, over the identifiers generate_id may
\* mint in each attempt
RECURSIVE create_run_environment(_, _, _, _)
create_run_environment(attempt, ds, ws, user_id) ==
  IF attempt > DbInsertAttempts
  THEN \* raise IdsUnavailableProblem
       {[ok |-> FALSE, docs |-> ds, dirs |-> ws, task_id |-> NoId,
         run_id |-> NoId]}
  ELSE UNION {
    IF run_id \in ws
    THEN \* mkdir: FileExistsError, continue
         create_run_environment(attempt + 1, ds, ws, user_id)
    ELSE IF DuplicateKeyError(ds, run_id, uuid(ds))
    THEN \* insert: DuplicateKeyError, rmdir, continue
         create_run_environment(attempt + 1, ds, ws, user_id)
    ELSE {[ok |-> TRUE,
           docs |-> Append(ds, DbDocument(NextObjectId(ds), run_id, uuid(ds),
                                          user_id)),
           dirs |-> ws \cup {run_id},
           task_id |-> uuid(ds),
           run_id |-> run_id]}
    : run_id \in IdSpace }

\* what RunRequest(**form) raises for a form it does not accept: pydantic's
\* ValidationError from the field validators (models.py lines 88-170), or
\* NoSuitableEngine from workflow_type_and_version_supported (lines 172-201)
RejectReasons == {"ValidationError", "NoSuitableEngine"}

\* A handler that creates the run environment before it validates the form.
RunWorkflowRejectLate(user_id, exc) ==
  /\ resp' = Response("run_workflow", user_id, NoId, None, 400, exc, NoId,
                      None)
  /\ \E run_id \in IdSpace : dirs' = dirs \cup {run_id}
  /\ UNCHANGED <<docs, inflight, tracker, cancel_requests, pager>>
  /\ UNCHANGED <<creating, service_info, info_resp, run_request, poll>>

\* WorkflowRuns.run_workflow, lines 82-88: _validate_run_request raises on
\* a form that does not validate; nothing has been touched yet
RunWorkflowReject(user_id, exc) ==
  /\ resp' = Response("run_workflow", user_id, NoId, None, 400, exc, NoId,
                      None)
  /\ UNCHANGED <<docs, dirs, inflight, tracker, cancel_requests, pager>>
  /\ UNCHANGED <<creating, service_info, info_resp, run_request, poll>>

\* WorkflowRuns.run_workflow, lines 90-115, for a form that validates: owner,
\* run environment, document insertion
RunWorkflowCreate(user_id) ==
  /\ \E env \in create_run_environment(1, docs, dirs, user_id) :
     IF env.ok
     THEN /\ docs' = env.docs
          /\ dirs' = env.dirs
          /\ inflight' = inflight \cup {env.task_id}
          /\ resp' = NoResp
     ELSE /\ resp' = Response("run_workflow", user_id, NoId, None, 500,
                              "IdsUnavailableProblem", NoId, None)
          /\ UNCHANGED <<docs, dirs, inflight>>
  /\ UNCHANGED <<tracker, cancel_requests, pager>>
  /\ UNCHANGED <<creating, service_info, info_resp, run_request, poll>>

\* ------------------------------------- _create_run_environment, step by step
\* The same loop with the handlers of concurrent requests interleaved:
\* creating[h] is the handler's place in the loop, its attempt counter, the
\* run_id it minted last, the owner of the request and the number of
\* DuplicateKeyErrors it has met.
Handlers == 1..NumHandlers

IdleHandler == [pc |-> "idle", attempt |-> 0, run_id |-> NoId,
                user_id |-> None, dups |-> 0]

\* lines 95-99 and 415: a validated request enters the loop with attempt 1
CreateBegin(h, user_id) ==
  /\ creating[h].pc = "idle"
  /\ creating' = [creating EXCEPT
                    ![h] = [pc |-> "mkdir", attempt |-> 1, run_id |-> NoId,
                            user_id |-> user_id, dups |-> 0]]
  /\ resp' = NoResp
  /\ UNCHANGED <<docs, dirs, inflight, tracker, cancel_requests, pager>>
  /\ UNCHANGED <<service_info, info_resp, run_request, poll>>

\* A loop test attempt < db_insert_attempts: one pass fewer.
Continue_lt(c) ==
  IF c.attempt < DbInsertAttempts
  THEN [c EXCEPT !.pc = "mkdir", !.run_id = NoId]
  ELSE [pc |-> "idle", attempt |-> 0, run_id |-> NoId, user_id |-> None,
        dups |-> 0]

\* lines 416 and 453: `continue` goes back to the loop test, which lets the
\* handler go on while attempt <= db_insert_attempts and otherwise ends the
\* loop, and the handler, with IdsUnavailableProblem
Continue(c) ==
  IF c.attempt <= DbInsertAttempts
  THEN [c EXCEPT !.pc = "mkdir", !.run_id = NoId]
  ELSE IdleHandler

\* the response of a handler that has just taken the step to c
ResponseOfCreate(c) ==
  IF c.pc = "idle"
  THEN Response("run_workflow", None, NoId, None, 500,
                "IdsUnavailableProblem", NoId, None)
  ELSE NoResp

\* mkdir(exist_ok=True): an existing directory is taken over
mkdir_exist_ok(ws, run_id) == FALSE

\* lines 427-430, work_dir.mkdir(parents=False, exist_ok=False): TRUE when
\* it raises FileExistsError
mkdir(ws, run_id) == run_id \in ws

\* lines 417-432: one pass from the loop head to the created directory
CreateMkdir(h, run_id) ==
  /\ creating[h].pc = "mkdir"
  /\ LET c == [creating[h] EXCEPT !.attempt = @ + 1] IN
     IF mkdir(dirs, run_id)
     THEN /\ creating' = [creating EXCEPT ![h] = Continue(c)]
          /\ resp' = ResponseOfCreate(Continue(c))
          /\ UNCHANGED dirs
     ELSE /\ dirs' = dirs \cup {run_id}
          /\ creating' = [creating EXCEPT
                            ![h] = [c EXCEPT !.pc = "insert",
                                             !.run_id = run_id]]
          /\ resp' = NoResp
  /\ UNCHANGED <<docs, inflight, tracker, cancel_requests, pager>>
  /\ UNCHANGED <<service_info, info_resp, run_request, poll>>

\* An insert that leaves the directory of a collided attempt in place.
CreateInsertKeepsDir(h) ==
  /\ creating[h].pc = "insert"
  /\ LET c == creating[h]
         task_id == uuid(docs)
     IN IF DuplicateKeyError(docs, c.run_id, task_id)
        THEN LET d == Continue([c EXCEPT !.dups = @ + 1]) IN
             /\ creating' = [creating EXCEPT ![h] = d]
             /\ resp' = ResponseOfCreate(d)
             /\ UNCHANGED <<docs, dirs, inflight>>
        ELSE /\ docs' = Append(docs, DbDocument(NextObjectId(docs), c.run_id,
                                                task_id, c.user_id))
             /\ inflight' = inflight \cup {task_id}
             /\ creating' = [creating EXCEPT ![h] = IdleHandler]
             /\ resp' = NoResp
             /\ UNCHANGED dirs
  /\ UNCHANGED <<tracker, cancel_requests, pager>>
  /\ UNCHANGED <<service_info, info_resp, run_request, poll>>

\* lines 434-452: populate the document and insert it; on DuplicateKeyError
\* remove the directory and continue
CreateInsert(h) ==
  /\ creating[h].pc = "insert"
  /\ LET c == creating[h]
         task_id == uuid(docs)
     IN IF DuplicateKeyError(docs, c.run_id, task_id)
        THEN LET d == Continue([c EXCEPT !.dups = @ + 1]) IN
             /\ dirs' = dirs \ {c.run_id}
             /\ creating' = [creating EXCEPT ![h] = d]
             /\ resp' = ResponseOfCreate(d)
             /\ UNCHANGED <<docs, inflight>>
        ELSE /\ docs' = Append(docs, DbDocument(NextObjectId(docs), c.run_id,
                                                task_id, c.user_id))
             /\ inflight' = inflight \cup {task_id}
             /\ creating' = [creating EXCEPT ![h] = IdleHandler]
             /\ resp' = NoResp
             /\ UNCHANGED dirs
  /\ UNCHANGED <<tracker, cancel_requests, pager>>
  /\ UNCHANGED <<service_info, info_resp, run_request, poll>>

\* The workspace of a persisted run is removed from storage_path by
\* whoever collects the workspaces; the service does not.
WorkDirRemoved(run_id) ==
  /\ run_id \in dirs
  /\ \E i \in 1..Len(docs) : docs[i].run_id = run_id
  /\ dirs' = dirs \ {run_id}
  /\ resp' = NoResp
  /\ UNCHANGED <<docs, inflight, tracker, cancel_requests, pager>>
  /\ UNCHANGED <<creating, service_info, info_resp, run_request, poll>>

\* the run id the upstream mints for the run it created for a task: opaque
\* to the proxy, unique per run
RemoteRunId(task_id) == 100 + task_id

\* what wes_client.post_run gives the handler
ForwardOutcomes ==
  {[kind |-> "EngineUnavailable", code |-> 0],
   [kind |-> "ValueError", code |-> 0],
   [kind |-> "RunId", code |-> 0]}
  \cup {[kind |-> "ErrorResponse", code |-> c] : c \in {400, 401, 403, 500}}

\* A forward that enqueues the tracker whatever post_run gave.
RunWorkflowForwardAlwaysTracks(task_id, out) ==
  /\ task_id \in inflight
  /\ inflight' = inflight \ {task_id}
  /\ LET i == FindByTaskId(docs, task_id) IN
     /\ docs' = IF out.kind = "RunId"
                THEN upsert_wes_endpoint_run_id(docs, task_id,
                                                RemoteRunId(task_id))
                ELSE docs
     /\ tracker' = tracker @@ (task_id :> [pc |-> "queued", exc |-> None])
     /\ resp' = Response("run_workflow", docs[i].user_id, docs[i].run_id,
                         out.kind, 200, None, docs[i].run_id, None)
  /\ UNCHANGED <<dirs, cancel_requests, pager>>
  /\ UNCHANGED <<creating, service_info, info_resp, run_request, poll>>

\* WorkflowRuns.run_workflow, lines 117-165: forward, error handling,
\* upsert of the remote run id, enqueueing of the tracker, response.
\* db_connector.update_task_state is not a method of DbDocumentConnector:
\* both error branches end in AttributeError before anything is written.
RunWorkflowForward(task_id, out) ==
  /\ task_id \in inflight
  /\ inflight' = inflight \ {task_id}
  /\ LET i == FindByTaskId(docs, task_id) IN
     IF out.kind = "RunId"
     THEN /\ docs' = upsert_wes_endpoint_run_id(docs, task_id,
                                                RemoteRunId(task_id))
          /\ tracker' = tracker @@ (task_id :> [pc |-> "queued", exc |-> None])
          /\ resp' = Response("run_workflow", docs[i].user_id, docs[i].run_id,
                              out.kind, 200, None, docs[i].run_id, None)
     ELSE /\ UNCHANGED <<docs, tracker>>
          /\ resp' = [Response("run_workflow", docs[i].user_id,
                               docs[i].run_id, out.kind, 500,
                               IF out.kind = "ValueError" THEN "ValueError"
                               ELSE "AttributeError",
                               NoId, None)
                      EXCEPT !.upstream_code = out.code]
  /\ UNCHANGED <<dirs, cancel_requests, pager>>
  /\ UNCHANGED <<creating, service_info, info_resp, run_request, poll>>

\* ------------------------------------------------- task__track_run_progress
\* A task the broker delivers again after it ended.
TrackerStartRedelivered(task_id) ==
  /\ task_id \in DOMAIN tracker
  /\ tracker[task_id].pc \in {"queued", "terminated"}
  /\ docs' = update_run_state(docs, task_id, "INITIALIZING")
  /\ tracker' = [tracker EXCEPT ![task_id].pc = "get_run"]
  /\ resp' = NoResp
  /\ UNCHANGED <<dirs, inflight, cancel_requests, pager>>
  /\ UNCHANGED <<creating, service_info, info_resp, run_request, poll>>

\* lines 60-85: the worker picks the task up, binds the connector to the
\* task id and writes INITIALIZING
TrackerStart(task_id) ==
  /\ task_id \in DOMAIN tracker
  /\ tracker[task_id].pc = "queued"
  /\ docs' = update_run_state(docs, task_id, "INITIALIZING")
  /\ tracker' = [tracker EXCEPT ![task_id].pc = "get_run"]
  /\ resp' = NoResp
  /\ UNCHANGED <<dirs, inflight, cancel_requests, pager>>
  /\ UNCHANGED <<creating, service_info, info_resp, run_request, poll>>

\* An initial log mirror whose upsert is carried out: the fields of the
\* upstream's run log, its run_id among them, are set in run_log.
TrackerGetRunMirrors(task_id, available) ==
  /\ task_id \in DOMAIN tracker
  /\ tracker[task_id].pc = "get_run"
  /\ IF ~available
     THEN /\ docs' = update_run_state(docs, task_id, "SYSTEM_ERROR")
          /\ tracker' = [tracker EXCEPT
                           ![task_id] = [pc |-> "terminated",
                                         exc |-> "EngineUnavailable"]]
     ELSE /\ docs' = [docs EXCEPT
                        ![FindByTaskId(docs, task_id)].run_id =
                          RemoteRunId(task_id)]
          /\ tracker' = [tracker EXCEPT
                           ![task_id] = [pc |-> "terminated",
                                         exc |-> None]]
  /\ resp' = NoResp
  /\ UNCHANGED <<dirs, inflight, cancel_requests, pager>>
  /\ UNCHANGED <<creating, service_info, info_resp, run_request, poll>>

\* An initial log mirror without the `except EngineUnavailable` of lines
\* 92-94: the exception ends the task, and nothing is written.
TrackerGetRunUnhandled(task_id, available) ==
  /\ task_id \in DOMAIN tracker
  /\ tracker[task_id].pc = "get_run"
  /\ tracker' = [tracker EXCEPT
                   ![task_id] = [pc |-> "terminated",
                                 exc |-> IF available THEN "AttributeError"
                                         ELSE "EngineUnavailable"]]
  /\ resp' = NoResp
  /\ UNCHANGED <<docs, dirs, inflight, cancel_requests, pager>>
  /\ UNCHANGED <<creating, service_info, info_resp, run_request, poll>>

\* lines 87-102: the initial log mirror.  get_run returns the decoded JSON
\* unvalidated (client_wes.py line 206), a dict; response.dict() on line
\* 101 then raises AttributeError, so the upsert, the polling loop and the
\* final mirror (lines 99-158) are never executed.
TrackerGetRun(task_id, available) ==
  /\ task_id \in DOMAIN tracker
  /\ tracker[task_id].pc = "get_run"
  /\ IF ~available
     THEN /\ docs' = update_run_state(docs, task_id, "SYSTEM_ERROR")
          /\ tracker' = [tracker EXCEPT
                           ![task_id] = [pc |-> "terminated",
                                         exc |-> "EngineUnavailable"]]
     ELSE /\ UNCHANGED docs
          /\ tracker' = [tracker EXCEPT
                           ![task_id] = [pc |-> "terminated",
                                         exc |-> "AttributeError"]]
  /\ resp' = NoResp
  /\ UNCHANGED <<dirs, inflight, cancel_requests, pager>>
  /\ UNCHANGED <<creating, service_info, info_resp, run_request, poll>>

\* A soft time limit handled like the EngineUnavailable of get_run.
TrackerSoftTimeLimitHandled(task_id) ==
  /\ task_id \in DOMAIN tracker
  /\ tracker[task_id].pc \in {"queued", "get_run"}
  /\ docs' = update_run_state(docs, task_id, "SYSTEM_ERROR")
  /\ tracker' = [tracker EXCEPT
                   ![task_id] = [pc |-> "terminated",
                                 exc |-> "SoftTimeLimitExceeded"]]
  /\ resp' = NoResp
  /\ UNCHANGED <<dirs, inflight, cancel_requests, pager>>
  /\ UNCHANGED <<creating, service_info, info_resp, run_request, poll>>

\* The soft time limit of apply_async (workflow_runs.py line 162) fires in
\* a running task: the worker raises SoftTimeLimitExceeded at the statement
\* the task is at, before line 78 has written or between line 78 and the
\* return of get_run.  The only handlers of the task are the
\* `except EngineUnavailable` of lines 92, 119 and 145 and the
\* `except (RequestException, ValueError)` of the client, none of which
\* catches it, so the task ends without a further statement.
TrackerSoftTimeLimit(task_id) ==
  /\ task_id \in DOMAIN tracker
  /\ tracker[task_id].pc \in {"queued", "get_run"}
  /\ tracker' = [tracker EXCEPT
                   ![task_id] = [pc |-> "terminated",
                                 exc |-> "SoftTimeLimitExceeded"]]
  /\ resp' = NoResp
  /\ UNCHANGED <<docs, dirs, inflight, cancel_requests, pager>>
  /\ UNCHANGED <<creating, service_info, info_resp, run_request, poll>>

\* At-least-once delivery: the broker hands the task of a tracker that has
\* ended to a worker once more; task__track_run_progress then runs again
\* from its first line with the same arguments.
TrackerRedeliver(task_id) ==
  /\ task_id \in DOMAIN tracker
  /\ tracker[task_id].pc = "terminated"
  /\ tracker' = [tracker EXCEPT ![task_id] = [pc |-> "queued", exc |-> None]]
  /\ resp' = NoResp
  /\ UNCHANGED <<docs, dirs, inflight, cancel_requests, pager>>
  /\ UNCHANGED <<creating, service_info, info_resp, run_request, poll>>

\* ------------------------------------------------------ query controllers
\* An access check that lets every requester through.
check_access_permission_open(owner, requester) == FALSE

\* WorkflowRuns._check_access_permission: TRUE when Forbidden is raised
check_access_permission(owner, requester) ==
  requester # None /\ requester # owner

\* WorkflowRuns.get_run_log
GetRunLog(run_id, requester) ==
  /\ LET i == FindByRunId(docs, run_id) IN
     resp' =
       IF i = 0
       THEN Response("get_run_log", requester, run_id, None, 404,
                     "RunNotFound", NoId, None)
       ELSE IF check_access_permission(docs[i].user_id, requester)
       THEN Response("get_run_log", requester, run_id, None, 403,
                     "Forbidden", NoId, None)
       ELSE Response("get_run_log", requester, run_id, None, 200, None,
                     NoId, docs[i].state)
  /\ UNCHANGED <<docs, dirs, inflight, tracker, cancel_requests, pager>>
  /\ UNCHANGED <<creating, service_info, info_resp, run_request, poll>>

\* WorkflowRuns.get_run_status
GetRunStatus(run_id, requester) ==
  /\ LET i == FindByRunId(docs, run_id) IN
     resp' =
       IF i = 0
       THEN Response("get_run_status", requester, run_id, None, 404,
                     "RunNotFound", NoId, None)
       ELSE IF check_access_permission(docs[i].user_id, requester)
       THEN Response("get_run_status", requester, run_id, None, 403,
                     "Forbidden", NoId, None)
       ELSE Response("get_run_status", requester, run_id, None, 200, None,
                     NoId, docs[i].state)
  /\ UNCHANGED <<docs, dirs, inflight, tracker, cancel_requests, pager>>
  /\ UNCHANGED <<creating, service_info, info_resp, run_request, poll>>

\* what wes_client.cancel_run gives the handler, and whether the upstream
\* received the request (a transport or decoding failure may come after it)
CancelOutcomes ==
  {[kind |-> "RunId", received |-> TRUE],
   [kind |-> "ErrorResponse", received |-> TRUE],
   [kind |-> "ValueError", received |-> TRUE],
   [kind |-> "EngineUnavailable", received |-> TRUE],
   [kind |-> "EngineUnavailable", received |-> FALSE]}

\* A cancel_run that writes CANCELING to the document of the run.
CancelRunWritesState(run_id, requester) ==
  /\ LET i == FindByRunId(docs, run_id) IN
     /\ i # 0
     /\ docs[i].wes_run_id # NoId
     /\ docs' = [docs EXCEPT ![i].state = "CANCELING"]
     /\ cancel_requests' = cancel_requests \cup {docs[i].wes_run_id}
     /\ resp' = Response("cancel_run", requester, run_id, "RunId", 200, None,
                         run_id, None)
  /\ UNCHANGED <<dirs, inflight, tracker, pager>>
  /\ UNCHANGED <<creating, service_info, info_resp, run_request, poll>>

\* WorkflowRuns.cancel_run.  The document of a run whose forward has not
\* (yet) returned a RunId has no wes_endpoint.run_id: KeyError on line 390.
\* The upstream's answer is not looked at.
CancelRun(run_id, requester) ==
  /\ LET i == FindByRunId(docs, run_id) IN
     IF i = 0
     THEN /\ resp' = Response("cancel_run", requester, run_id, None, 404,
                              "RunNotFound", NoId, None)
          /\ UNCHANGED cancel_requests
     ELSE IF check_access_permission(docs[i].user_id, requester)
     THEN /\ resp' = Response("cancel_run", requester, run_id, None, 403,
                              "Forbidden", NoId, None)
          /\ UNCHANGED cancel_requests
     ELSE IF docs[i].wes_run_id = NoId
     THEN /\ resp' = Response("cancel_run", requester, run_id, None, 500,
                              "KeyError", NoId, None)
          /\ UNCHANGED cancel_requests
     ELSE \E out \in CancelOutcomes :
          /\ cancel_requests' =
               IF out.received THEN cancel_requests \cup {docs[i].wes_run_id}
               ELSE cancel_requests
          /\ resp' =
               IF out.kind \in {"EngineUnavailable", "ValueError"}
               THEN Response("cancel_run", requester, run_id, out.kind, 500,
                             out.kind, NoId, None)
               ELSE Response("cancel_run", requester, run_id, out.kind, 200,
                             None, run_id, None)
  /\ UNCHANGED <<docs, dirs, inflight, tracker, pager>>
  /\ UNCHANGED <<creating, service_info, info_resp, run_request, poll>>

\* ---------------------------------------------------------------- GET /runs
\* str(ObjectId): the identifier as fixed-width hexadecimal digits
ObjectIdToStr(oid) == <<oid \div 16, oid % 16>>

\* ObjectId(page_token): the identifier a token of hexadecimal digits names
ObjectIdFromStr(token) == token[1] * 16 + token[2]

\* cursor.sort('_id', -1): the documents at the indices ix, largest _id first
RECURSIVE SortDescending(_, _)
SortDescending(ds, ix) ==
  IF ix = {} THEN <<>>
  ELSE LET m == CHOOSE i \in ix : \A j \in ix : ds[j].oid <= ds[i].oid
       IN <<m>> \o SortDescending(ds, ix \ {m})

\* cursor.limit(page_size): pymongo takes a limit of 0 as no limit
Limit(seq, page_size) ==
  IF page_size = 0 \/ Len(seq) <= page_size THEN seq
  ELSE SubSeq(seq, 1, page_size)

\* lines 195-204: the indices of the documents the filter selects: those of
\* the user when the request carries a user_id, those with an _id below
\* ObjectId(page_token) when a token is given
Matching(ds, page_token, user_id) ==
  {i \in 1..Len(ds) :
     /\ user_id # None => ds[i].user_id = user_id
     /\ page_token # <<>> => ds[i].oid < ObjectIdFromStr(page_token)}

\* lines 230-235: the runs reshaped to {run_id, state}
Reshape(ds, runs_list) ==
  [k \in 1..Len(runs_list) |->
     [run_id |-> ds[runs_list[k]].run_id, state |-> ds[runs_list[k]].state]]

\* list_runs with $lte in place of $lt in the pagination filter.
list_runs_lte(ds, page_size, page_token, user_id) ==
  LET matching ==
        {i \in 1..Len(ds) :
           /\ user_id # None => ds[i].user_id = user_id
           /\ page_token # <<>> => ds[i].oid <= ObjectIdFromStr(page_token)}
      runs_list == Limit(SortDescending(ds, matching), page_size)
  IN [next_page_token |->
        IF runs_list # <<>>
        THEN ObjectIdToStr(ds[runs_list[Len(runs_list)]].oid)
        ELSE <<>>,
      runs |-> Reshape(ds, runs_list)]

\* list_runs that gives no token on a page that did not fill.
list_runs_short_is_last(ds, page_size, page_token, user_id) ==
  LET runs_list ==
        Limit(SortDescending(ds, Matching(ds, page_token, user_id)), page_size)
  IN [next_page_token |->
        IF Len(runs_list) >= page_size
        THEN ObjectIdToStr(ds[runs_list[Len(runs_list)]].oid)
        ELSE <<>>,
      runs |-> Reshape(ds, runs_list)]

\* list_runs paging by position: the token counts the runs handed out so
\* far and the next page skips that many.
list_runs_skip(ds, page_size, page_token, user_id) ==
  LET offset == IF page_token = <<>> THEN 0 ELSE ObjectIdFromStr(page_token)
      sorted == SortDescending(ds, Matching(ds, <<>>, user_id))
      runs_list == Limit(SubSeq(sorted, offset + 1, Len(sorted)), page_size)
  IN [next_page_token |->
        IF runs_list # <<>>
        THEN ObjectIdToStr(offset + Len(runs_list))
        ELSE <<>>,
      runs |-> Reshape(ds, runs_list)]

\* list_runs without the owner filter of lines 199-200.
list_runs_unfiltered(ds, page_size, page_token, user_id) ==
  LET runs_list ==
        Limit(SortDescending(ds, Matching(ds, page_token, None)), page_size)
  IN [next_page_token |->
        IF runs_list # <<>>
        THEN ObjectIdToStr(ds[runs_list[Len(runs_list)]].oid)
        ELSE <<>>,
      runs |-> Reshape(ds, runs_list)]

\* WorkflowRuns.list_runs: the matching documents, newest first, at most
\* page_size of them; next_page_token is the _id of the last run of the
\* page, and empty only when the page is empty
list_runs(ds, page_size, page_token, user_id) ==
  LET runs_list ==
        Limit(SortDescending(ds, Matching(ds, page_token, user_id)), page_size)
  IN [next_page_token |->
        IF runs_list # <<>>
        THEN ObjectIdToStr(ds[runs_list[Len(runs_list)]].oid)
        ELSE <<>>,
      runs |-> Reshape(ds, runs_list)]

RunIdsOf(runs) == [k \in 1..Len(runs) |-> runs[k].run_id]

IdlePager == [phase |-> "idle", user_id |-> None, page_size |-> 0,
              token |-> <<>>, acc |-> <<>>, last |-> 0, snapshot |-> 0,
              seen |-> 0]

\* a client's first GET /runs, without page_token.  snapshot is the number
\* of documents in the collection at that moment, seen the number at the
\* latest page request.
ListRunsFirst(page_size, user_id) ==
  /\ pager.phase # "paging"
  /\ LET r == list_runs(docs, page_size, <<>>, user_id) IN
     pager' = [phase |-> IF r.next_page_token = <<>> THEN "done" ELSE "paging",
               user_id |-> user_id, page_size |-> page_size,
               token |-> r.next_page_token, acc |-> RunIdsOf(r.runs),
               last |-> Len(r.runs), snapshot |-> Len(docs),
               seen |-> Len(docs)]
  /\ resp' = Response("list_runs", user_id, NoId, None, 200, None, NoId, None)
  /\ UNCHANGED <<docs, dirs, inflight, tracker, cancel_requests>>
  /\ UNCHANGED <<creating, service_info, info_resp, run_request, poll>>

\* the client's next GET /runs, with the next_page_token it was given
ListRunsNext ==
  /\ pager.phase = "paging"
  /\ LET r == list_runs(docs, pager.page_size, pager.token, pager.user_id) IN
     pager' = [pager EXCEPT
                 !.phase = IF r.next_page_token = <<>> THEN "done"
                           ELSE "paging",
                 !.token = r.next_page_token,
                 !.acc = pager.acc \o RunIdsOf(r.runs),
                 !.last = Len(r.runs),
                 !.seen = Len(docs)]
  /\ resp' = Response("list_runs", pager.user_id, NoId, None, 200, None, NoId,
                      None)
  /\ UNCHANGED <<docs, dirs, inflight, tracker, cancel_requests>>
  /\ UNCHANGED <<creating, service_info, info_resp, run_request, poll>>

\* ------------------------------------------------------------ /service-info
\* RegisterServiceInfo of endpoints/service_info.py.  A service info is
\* its id and the rest of its content; the service_info collection holds
\* the documents in insertion order, oid standing for _id.
Payloads == [id : {"a", "b"}, content : {"v1", "v2"}]

NoData == [id |-> None, content |-> None]

\* states.py States: the lists of states, lines 9-29
UNDEFINED == <<"UNKNOWN">>
CANCELABLE == <<"INITIALIZING", "PAUSED", "QUEUED", "RUNNING">>
FINISHED == <<"COMPLETE", "EXECUTOR_ERROR", "SYSTEM_ERROR", "CANCELED">>
UNFINISHED == CANCELABLE \o <<"CANCELING">>

\* the members of a list
Members(list) == {list[i] : i \in 1..Len(list)}

\* states.py States.ALL = FINISHED + UNFINISHED + UNDEFINED
StatesALL == Members(FINISHED \o UNFINISHED \o UNDEFINED)

\* _init_system_state_counts: all state counts zero
init_system_state_counts == [state \in StatesALL |-> 0]

\* A replace_one that matches nothing: every call inserts a document.
insert_service_info(coll, data) ==
  Append(coll, [oid |-> Len(coll) + 1, data |-> data])

\* _upsert_service_info: replace_one(filter={'id': data['id']},
\* replacement=data, upsert=True).  The replaced document keeps its _id.
upsert_service_info(coll, data) ==
  IF \E i \in 1..Len(coll) : coll[i].data.id = data.id
  THEN LET i == CHOOSE i \in 1..Len(coll) :
                  /\ coll[i].data.id = data.id
                  /\ \A j \in 1..Len(coll) : coll[j].data.id = data.id => i <= j
       IN [coll EXCEPT ![i].data = data]
  ELSE Append(coll, [oid |-> Len(coll) + 1, data |-> data])

\* _get_system_state_counts: for every run document, projected to
\* 'api.state', current_counts[record['api']['state']] += 1.  record['api']
\* raises KeyError for a document without the key api.
get_system_state_counts(ds) ==
  IF \E i \in 1..Len(ds) : "api" \notin DOMAIN ds[i]
  THEN [exc |-> "KeyError", counts |-> init_system_state_counts]
  ELSE [exc |-> None,
        counts |-> [state \in StatesALL |->
                      init_system_state_counts[state]
                      + Cardinality({i \in 1..Len(ds) :
                                       ds[i].api.state = state})]]

\* get_service_info: the document with the largest _id (sort _id
\* descending, limit 1) without its _id, plus system_state_counts;
\* NotFound for an empty collection
get_service_info(coll, ds) ==
  IF coll = <<>>
  THEN [op |-> "get_service_info", status |-> 404, exc |-> "NotFound",
        data |-> NoData, counts |-> init_system_state_counts]
  ELSE LET latest == CHOOSE i \in 1..Len(coll) :
                       \A j \in 1..Len(coll) : coll[j].oid <= coll[i].oid
           c == get_system_state_counts(ds)
       IN IF c.exc # None
          THEN [op |-> "get_service_info", status |-> 500, exc |-> c.exc,
                data |-> NoData, counts |-> init_system_state_counts]
          ELSE [op |-> "get_service_info", status |-> 200, exc |-> None,
                data |-> coll[latest].data, counts |-> c.counts]

\* GET /service-info
GetServiceInfo ==
  /\ info_resp' = get_service_info(service_info, docs)
  /\ resp' = NoResp
  /\ UNCHANGED <<docs, dirs, inflight, tracker, cancel_requests, pager>>
  /\ UNCHANGED <<creating, service_info, run_request, poll>>

\* POST /service-info: set_service_info_from_app_context, 201 without body
SetServiceInfo(data) ==
  /\ service_info' = upsert_service_info(service_info, data)
  /\ info_resp' = [op |-> "set_service_info", status |-> 201, exc |-> None,
                   data |-> data, counts |-> init_system_state_counts]
  /\ resp' = NoResp
  /\ UNCHANGED <<docs, dirs, inflight, tracker, cancel_requests, pager>>
  /\ UNCHANGED <<creating, run_request, poll>>

\* ------------------------------------------------- DbDocumentConnector
\* the values update_run_state is called with: states of the enumerator and
\* values that are none
StateArguments == {"RUNNING", "State.RUNNING"}

\* the outputs an upsert of run_log writes
OutputValues == {"o1"}

\* one call of update_run_state on a connector bound to task_id: one
\* find_one_and_update, atomic in the database
UpdateRunState(task_id, state) ==
  /\ docs' = update_run_state(docs, task_id, state)
  /\ resp' = Response("update_run_state", None, NoId, None, 0,
                      IF update_run_state_raises(state) THEN "ValueError"
                      ELSE None,
                      task_id, state)
  /\ UNCHANGED <<dirs, inflight, tracker, cancel_requests, pager>>
  /\ UNCHANGED <<creating, service_info, info_resp, run_request, poll>>

\* one call of upsert_fields_in_root_object(root='wes_endpoint', run_id=...)
UpsertWesEndpoint(task_id, remote_run_id) ==
  /\ docs' = upsert_wes_endpoint_run_id(docs, task_id, remote_run_id)
  /\ resp' = Response("upsert_wes_endpoint", None, NoId, None, 0,
                      IF upsert_raises(docs, task_id) THEN "ValueError"
                      ELSE None,
                      task_id, None)
  /\ UNCHANGED <<dirs, inflight, tracker, cancel_requests, pager>>
  /\ UNCHANGED <<creating, service_info, info_resp, run_request, poll>>

\* one call of upsert_fields_in_root_object(root='run_log', outputs=...)
UpsertRunLog(task_id, outputs) ==
  /\ docs' = upsert_run_log_outputs(docs, task_id, outputs)
  /\ resp' = Response("upsert_run_log", None, NoId, None, 0,
                      IF upsert_raises(docs, task_id) THEN "ValueError"
                      ELSE None,
                      task_id, None)
  /\ UNCHANGED <<dirs, inflight, tracker, cancel_requests, pager>>
  /\ UNCHANGED <<creating, service_info, info_resp, run_request, poll>>

\* ------------------------------------------------- RunRequest validation
\* a form field that the request does not carry
Missing == "<missing>"

\* values of the JSON form fields workflow_params, tags and
\* workflow_engine_parameters ("k=1" is no JSON)
JsonValues == {Missing, "", "null", "[]", "{}", "{\"k\": 1}"}
TagsValues == {Missing, "", "null", "k=1"}
EngineParameterValues == {Missing, "{\"k\": 1}"}

\* values of workflow_type, workflow_type_version and workflow_url
TypeValues == {"", "CWL", "WDL"}
VersionValues == {"", "v1.0"}
UrlValues == {"", "wf.cwl"}

Forms ==
  [workflow_params : JsonValues, tags : TagsValues,
   workflow_engine_parameters : EngineParameterValues,
   workflow_type : TypeValues, workflow_type_version : VersionValues,
   workflow_url : UrlValues]

\* json.loads: the type of the decoded value, or JSONDecodeError
loads(value) ==
  CASE value \in {"{}", "{\"k\": 1}"} -> "dict"
    [] value = "[]" -> "list"
    [] value = "null" -> "NoneType"
    [] OTHER -> "JSONDecodeError"

\* A validator that takes every JSON value for an object.
json_serialized_any_json(value, field) ==
  IF value \in {"", "null", None}
  THEN IF field = "workflow_params"
       THEN [err |-> "field required", value |-> None]
       ELSE [err |-> None, value |-> "{}"]
  ELSE IF loads(value) = "JSONDecodeError"
  THEN [err |-> "could not be JSON deserialized", value |-> None]
  ELSE [err |-> None, value |-> value]

\* RunRequest.json_serialized_object_field_valid, models.py lines 112-170
json_serialized_object_field_valid(value, field) ==
  IF value \in {"", "null", None}
  THEN IF field = "workflow_params"
       THEN [err |-> "field required", value |-> None]
       ELSE [err |-> None, value |-> "{}"]
  ELSE IF loads(value) = "JSONDecodeError"
  THEN [err |-> "could not be JSON deserialized", value |-> None]
  ELSE IF loads(value) # "dict"
  THEN [err |-> "could not be interpreted as object", value |-> None]
  ELSE [err |-> None, value |-> value]

\* RunRequest.required_str_field_not_empty, models.py lines 88-110
required_str_field_not_empty(value) ==
  IF value = "" \/ value = None
  THEN [err |-> "field required", value |-> None]
  ELSE [err |-> None, value |-> value]

\* the fields of RunRequest without a default, models.py lines 81-86
RequiredFields ==
  {"workflow_params", "workflow_type", "workflow_type_version",
   "workflow_url"}

\* pydantic's validation of one field of RunRequest: a missing required
\* field is an error and its validators are not called; a missing optional
\* field takes its default "{}" and, the validators being `always`, is
\* validated like a given value
validate_field(form, field) ==
  IF form[field] = Missing /\ field \in RequiredFields
  THEN [err |-> "field required", value |-> None]
  ELSE LET value == IF form[field] = Missing THEN "{}" ELSE form[field] IN
       IF field \in {"workflow_params", "tags", "workflow_engine_parameters"}
       THEN json_serialized_object_field_valid(value, field)
       ELSE required_str_field_not_empty(value)

\* the workflow_type_versions of the service info: type -> versions
type_versions == [t \in {"CWL"} |-> {"v1.0"}]

\* RunRequest.workflow_type_and_version_supported, models.py lines 172-201:
\* `values` holds the fields that passed their validation, values.get gives
\* None for the others
workflow_type_and_version_supported(values) ==
  /\ values.workflow_type \in DOMAIN type_versions
  /\ values.workflow_type_version \in type_versions[values.workflow_type]

\* WorkflowRuns._validate_run_request, lines 484-502: RunRequest(**form).
\* The fields are validated one by one, then the root validator runs
\* whether or not a field failed; its NoSuitableEngine is no ValueError and
\* leaves the constructor as it is, a failed field gives ValidationError.
validate_run_request(form) ==
  LET checked == [f \in DOMAIN form |-> validate_field(form, f)]
      values == [f \in DOMAIN form |-> checked[f].value]
  IN IF ~workflow_type_and_version_supported(values)
     THEN [exc |-> "NoSuitableEngine", model |-> [f \in DOMAIN form |-> None]]
     ELSE IF \E f \in DOMAIN form : checked[f].err # None
     THEN [exc |-> "ValidationError", model |-> [f \in DOMAIN form |-> None]]
     ELSE [exc |-> None, model |-> values]

NoRequest ==
  [form |-> [f \in RequiredFields \cup {"tags", "workflow_engine_parameters"}
               |-> Missing],
   exc |-> None, model |-> [f \in {} |-> None], status |-> 0]

\* run_workflow, lines 84-88: the form of a POST /runs request is validated;
\* both exceptions are answered with 400
ValidateRunRequest(form) ==
  /\ LET r == validate_run_request(form) IN
     run_request' = [form |-> form, exc |-> r.exc, model |-> r.model,
                     status |-> IF r.exc = None THEN 200 ELSE 400]
  /\ UNCHANGED <<docs, dirs, inflight, tracker, cancel_requests, resp, pager>>
  /\ UNCHANGED <<creating, service_info, info_resp, poll>>

\* ------------------------------------------------------ the polling loop
\* The loop of task__track_run_progress, lines 104-136, from its entry: the
\* locals of the task and what it has written and polled so far.
\* controller_config.polling_attempts
PollingAttempts == 2

\* what wes_client.get_run_status gives one poll: it raises
\* EngineUnavailable or ValueError, or returns an ErrorResponse or a
\* RunStatus with a state
PollOutcomes ==
  {[kind |-> k, state |-> None] :
     k \in {"EngineUnavailable", "ValueError", "ErrorResponse"}}
  \cup {[kind |-> "RunStatus", state |-> s] : s \in {"RUNNING", "COMPLETE"}}

\* lines 105-106: run_state UNKNOWN, attempt 1; `response` is still the run
\* log of line 91, the dict get_run returned
LoopEntry ==
  [pc |-> "loop", run_state |-> "UNKNOWN", attempt |-> 1,
   response |-> [type |-> "dict", state |-> None],
   exc |-> None, written |-> <<>>, polls |-> <<>>]

\* lines 120-125 and 127-132: a failed poll is counted, and once attempt
\* has passed polling_attempts SYSTEM_ERROR is written and exc is raised
CountFailure(p, exc) ==
  IF p.attempt <= PollingAttempts
  THEN [p EXCEPT !.attempt = @ + 1]
  ELSE [p EXCEPT !.pc = "terminated", !.exc = exc,
                 !.written = Append(@, "SYSTEM_ERROR")]

\* one pass of the loop, lines 107-136.  The value get_run_status returns
\* is not assigned (line 115), so line 126 tests the `response` of line 91.
PollOnce(out) ==
  /\ poll.pc = "loop"
  /\ ~is_finished(poll.run_state)
  /\ LET p == [poll EXCEPT !.polls = Append(@, out)] IN
     poll' =
       IF out.kind = "EngineUnavailable"
       THEN CountFailure(p, "EngineUnavailable")
       ELSE IF out.kind = "ValueError"
       THEN [p EXCEPT !.pc = "terminated", !.exc = "ValueError"]
       ELSE IF p.response.type # "RunStatus"
       THEN CountFailure(p, "EngineProblem")
       ELSE IF p.response.state # p.run_state
       THEN [p EXCEPT !.attempt = 1, !.run_state = p.response.state,
                      !.written = Append(@, p.response.state)]
       ELSE [p EXCEPT !.attempt = 1]
  /\ UNCHANGED <<docs, dirs, inflight, tracker, cancel_requests, resp, pager>>
  /\ UNCHANGED <<creating, service_info, info_resp, run_request>>

\* -------------------------------------------------------------------------
Init ==
  /\ docs = <<>>
  /\ dirs = {}
  /\ inflight = {}
  /\ tracker = <<>>
  /\ cancel_requests = {}
  /\ resp = NoResp
  /\ pager = IdlePager
  /\ creating = [h \in Handlers |-> IdleHandler]
  /\ service_info = <<>>
  /\ info_resp = [op |-> "none", status |-> 0, exc |-> None, data |-> NoData,
                  counts |-> init_system_state_counts]
  /\ run_request = NoRequest
  /\ poll = LoopEntry

Admission ==
  \/ \E u \in Owners, x \in RejectReasons : RunWorkflowReject(u, x)
  \/ \E u \in Owners : RunWorkflowCreate(u)
  \/ \E t \in inflight, out \in ForwardOutcomes : RunWorkflowForward(t, out)

Tracking ==
  \/ \E t \in DOMAIN tracker : TrackerStart(t)
  \/ \E t \in DOMAIN tracker, a \in BOOLEAN : TrackerGetRun(t, a)

\* admission and tracking of runs
Next == Admission \/ Tracking

Spec == Init /\ [][Next]_vars

\* the per-run query controllers over the documents of admitted runs
NextAccess ==
  \/ \E u \in Owners : RunWorkflowCreate(u)
  \/ \E t \in inflight, out \in ForwardOutcomes : RunWorkflowForward(t, out)
  \/ \E r \in IdSpace, u \in Requesters : GetRunLog(r, u)
  \/ \E r \in IdSpace, u \in Requesters : GetRunStatus(r, u)
  \/ \E r \in IdSpace, u \in Requesters : CancelRun(r, u)

SpecAccess == Init /\ [][NextAccess]_vars

\* a client paging through GET /runs while run documents are inserted
NextList ==
  \/ \E u \in Owners : RunWorkflowCreate(u)
  \/ \E n \in 1..MaxPageSize, u \in Requesters : ListRunsFirst(n, u)
  \/ ListRunsNext

SpecList == Init /\ [][NextList]_vars

\* concurrent admissions and the removal of workspaces
NextAdmit ==
  \/ \E h \in Handlers : CreateBegin(h, None)
  \/ \E h \in Handlers, r \in IdSpace : CreateMkdir(h, r)
  \/ \E h \in Handlers : CreateInsert(h)
  \/ \E r \in IdSpace : WorkDirRemoved(r)

SpecAdmit == Init /\ [][NextAdmit]_vars

\* the service info set and read while runs are admitted
NextInfo ==
  \/ \E u \in Owners : RunWorkflowCreate(u)
  \/ \E x \in Payloads : SetServiceInfo(x)
  \/ GetServiceInfo

SpecInfo == Init /\ [][NextInfo]_vars

\* cancellation requests while runs are admitted and tracked
\* (runs of one owner; the forward either yields a remote run or fails)
NextCancel ==
  \/ RunWorkflowCreate("alice")
  \/ \E t \in inflight, out \in ForwardOutcomes :
       /\ out.kind \in {"RunId", "EngineUnavailable"}
       /\ RunWorkflowForward(t, out)
  \/ \E t \in DOMAIN tracker : TrackerStart(t)
  \/ \E t \in DOMAIN tracker, a \in BOOLEAN : TrackerGetRun(t, a)
  \/ \E r \in IdSpace, u \in {"alice", "bob"} : CancelRun(r, u)

SpecCancel == Init /\ [][NextCancel]_vars

\* trackers under a soft time limit
NextTimeLimit ==
  \/ \E u \in Owners : RunWorkflowCreate(u)
  \/ \E t \in inflight, out \in ForwardOutcomes :
       /\ out.kind \in {"RunId", "EngineUnavailable"}
       /\ RunWorkflowForward(t, out)
  \/ \E t \in DOMAIN tracker : TrackerStart(t)
  \/ \E t \in DOMAIN tracker, a \in BOOLEAN : TrackerGetRun(t, a)
  \/ \E t \in DOMAIN tracker : TrackerSoftTimeLimit(t)

SpecTimeLimit == Init /\ [][NextTimeLimit]_vars

\* the validation of run requests
NextValidate == \E form \in Forms : ValidateRunRequest(form)

SpecValidate == Init /\ [][NextValidate]_vars

\* the workspaces of runs that are admitted, forwarded and tracked
NextWorkDir ==
  \/ \E h \in Handlers : CreateBegin(h, None)
  \/ \E h \in Handlers, r \in IdSpace : CreateMkdir(h, r)
  \/ \E h \in Handlers : CreateInsert(h)
  \/ \E t \in inflight, out \in ForwardOutcomes :
       /\ out.kind \in {"RunId", "EngineUnavailable"}
       /\ RunWorkflowForward(t, out)
  \/ \E t \in DOMAIN tracker : TrackerStart(t)
  \/ \E t \in DOMAIN tracker, a \in BOOLEAN : TrackerGetRun(t, a)

SpecWorkDir == Init /\ [][NextWorkDir]_vars

\* connectors of the tasks of admitted runs, called in any order
NextConnector ==
  \/ RunWorkflowCreate(None)
  \/ \E t \in IdSpace, s \in StateArguments : UpdateRunState(t, s)
  \/ \E t \in IdSpace : UpsertWesEndpoint(t, RemoteRunId(t))
  \/ \E t \in IdSpace, o \in OutputValues : UpsertRunLog(t, o)

SpecConnector == Init /\ [][NextConnector]_vars

\* the polling loop of one tracker
NextPoll == \E out \in PollOutcomes : PollOnce(out)

SpecPoll == Init /\ [][NextPoll]_vars

\* trackers whose task is delivered more than once
NextRedeliver ==
  \/ \E u \in Owners : RunWorkflowCreate(u)
  \/ \E t \in inflight, out \in ForwardOutcomes :
       /\ out.kind \in {"RunId", "EngineUnavailable"}
       /\ RunWorkflowForward(t, out)
  \/ \E t \in DOMAIN tracker : TrackerStart(t)
  \/ \E t \in DOMAIN tracker, a \in BOOLEAN : TrackerGetRun(t, a)
  \/ \E t \in DOMAIN tracker : TrackerRedeliver(t)

SpecRedeliver == Init /\ [][NextRedeliver]_vars

\* the owner of tracked runs asking for them by their run_id
NextResolve ==
  \/ RunWorkflowCreate("alice")
  \/ \E t \in inflight, out \in ForwardOutcomes :
       /\ out.kind \in {"RunId", "EngineUnavailable"}
       /\ RunWorkflowForward(t, out)
  \/ \E t \in DOMAIN tracker : TrackerStart(t)
  \/ \E t \in DOMAIN tracker, a \in BOOLEAN : TrackerGetRun(t, a)
  \/ \E r \in IdSpace : GetRunLog(r, "alice")
  \/ \E r \in IdSpace : GetRunStatus(r, "alice")
  \/ \E r \in IdSpace : CancelRun(r, "alice")

SpecResolve == Init /\ [][NextResolve]_vars

\* =================================================================== claims
QueryOps == {"get_run_log", "get_run_status", "cancel_run"}

\* the state of the document of a task
StateOf(task_id) == docs[FindByTaskId(docs, task_id)].state

C3_ForwardFailureSetsSystemError ==
  (resp.op = "run_workflow"
     /\ resp.upstream \in {"EngineUnavailable", "ErrorResponse"})
  => \E i \in 1..Len(docs) :
       docs[i].run_id = resp.run_id /\ docs[i].state = "SYSTEM_ERROR"

\* C4: the tracker ends only by mirroring a finished state it polled or by
\* writing SYSTEM_ERROR (failed log fetch, or polling_attempts failed polls
\* in a row); a tracker whose polls can succeed goes on to mirror the
\* reported state.  Hence a tracker that has ended left a finished state.
C4_TrackerEndsFinished ==
  \A t \in DOMAIN tracker :
    tracker[t].pc = "terminated" => is_finished(StateOf(t))

\* C5: happy path: a tracker none of whose upstream calls failed ends
\* normally with the document in the finished state the upstream reported
\* and with the outputs of the final run log mirrored.
C5_HappyPathCompletes ==
  \A t \in DOMAIN tracker :
    (tracker[t].pc = "terminated" /\ tracker[t].exc # "EngineUnavailable")
    => /\ tracker[t].exc = None
       /\ is_finished(StateOf(t))
       /\ docs[FindByTaskId(docs, t)].outputs # None

\* C6: access-control soundness: when get_run_log, get_run_status or
\* cancel_run passes the access check for a request carrying user_id U on
\* a document with owner O, then O is null or O = U.
C6_AccessSound ==
  (resp.op \in QueryOps /\ resp.user_id # None
     /\ resp.exc \notin {"RunNotFound", "Forbidden"})
  => \A i \in 1..Len(docs) :
       docs[i].run_id = resp.run_id
       => docs[i].user_id = None \/ docs[i].user_id = resp.user_id

\* a request carrying a user_id was served from a document that has an owner
C6_Witness ==
  /\ resp.op \in QueryOps /\ resp.status = 200 /\ resp.user_id # None
  /\ \E i \in 1..Len(docs) :
       docs[i].run_id = resp.run_id /\ docs[i].user_id # None

\* C7: the access check fails with Forbidden exactly when the request
\* carries a user_id and the document has a non-null owner different from
\* it.
C7_ForbiddenExactly ==
  resp.op \in QueryOps
  => \A i \in 1..Len(docs) :
       docs[i].run_id = resp.run_id
       => (resp.exc = "Forbidden"
             <=> (resp.user_id # None /\ docs[i].user_id # None
                    /\ docs[i].user_id # resp.user_id))

\* C8: get_run_log, get_run_status and cancel_run on a run_id that no
\* document has fail with RunNotFound (404) whatever the user_id, and
\* cancel_run then makes no call to the upstream.
C8_MissingRunNotFound ==
  (resp.op \in QueryOps
     /\ ~ \E i \in 1..Len(docs) : docs[i].run_id = resp.run_id)
  => /\ resp.status = 404 /\ resp.exc = "RunNotFound"
     /\ resp.upstream = None

\* cancel_run of a request carrying a user_id answered RunNotFound while
\* the collection holds other runs
C8_Witness ==
  /\ resp.op = "cancel_run" /\ resp.exc = "RunNotFound"
  /\ resp.user_id # None
  /\ Len(docs) > 0

\* the run ids a traversal started at pager.snapshot documents has to
\* return: the matching documents, last inserted first
RECURSIVE ExpectedRuns(_, _)
ExpectedRuns(n, user_id) ==
  IF n = 0 THEN <<>>
  ELSE IF user_id = None \/ docs[n].user_id = user_id
  THEN <<docs[n].run_id>> \o ExpectedRuns(n - 1, user_id)
  ELSE ExpectedRuns(n - 1, user_id)

IsPrefix(a, b) == Len(a) <= Len(b) /\ a = SubSeq(b, 1, Len(a))

\* C9: list_runs paging is complete and duplicate-free: the pages fetched
\* from an empty page_token on, each with the next_page_token of the one
\* before, are together an initial part of the matching runs in descending
\* insertion order, and all of them once next_page_token is empty.
C9_PagingComplete ==
  pager.phase # "idle"
  => LET expected == ExpectedRuns(pager.snapshot, pager.user_id) IN
     /\ IsPrefix(pager.acc, expected)
     /\ pager.phase = "done" => pager.acc = expected

\* a traversal of several pages has returned two runs, one per page
C9_Witness ==
  /\ pager.phase = "done" /\ pager.page_size = 1
  /\ Len(pager.acc) = 2

\* C10 as stated: next_page_token is empty whenever the page holds fewer
\* than page_size runs.
C10_ShortPageEmptyToken ==
  (pager.phase # "idle" /\ pager.last < pager.page_size)
  => pager.token = <<>>

\* C10, amended: next_page_token is empty exactly when the page is empty;
\* a page that holds runs, also fewer than page_size, carries the _id of
\* its last run as next_page_token.
C10_EmptyTokenIffEmptyPage ==
  pager.phase # "idle"
  => /\ pager.token = <<>> <=> pager.last = 0
     /\ pager.last > 0 =>
          \E i \in 1..Len(docs) :
            /\ docs[i].run_id = pager.acc[Len(pager.acc)]
            /\ ObjectIdFromStr(pager.token) = docs[i].oid

\* a page with fewer runs than page_size, but not empty
C10_Witness ==
  /\ pager.phase # "idle"
  /\ pager.last > 0 /\ pager.last < pager.page_size
  /\ pager.token # <<>>

\* C11: no two persisted run documents share a task_id, and no two share a
\* run_log.run_id, whatever the interleaving of the concurrent admissions.
C11_UniqueIds ==
  \A i, j \in 1..Len(docs) :
    i # j => /\ docs[i].task_id # docs[j].task_id
             /\ docs[i].run_id # docs[j].run_id

\* two documents are persisted and a handler, its directory created, holds
\* the run_id of one of them: only the insert can still refuse it
C11_Witness ==
  /\ Len(docs) >= 2
  /\ \E h \in Handlers, i \in 1..Len(docs) :
       creating[h].pc = "insert" /\ creating[h].run_id = docs[i].run_id

\* the pass of the loop a handler is in: attempt is incremented at the head
\* of the pass
PassOf(c) == IF c.pc = "mkdir" THEN c.attempt ELSE c.attempt - 1

\* C12: run-environment creation makes at most db_insert_attempts passes:
\* an insert that meets no duplicate key succeeds with the run_id minted
\* last, also in the last pass after db_insert_attempts - 1 collisions; a
\* collision in an earlier pass is retried; a collision in the last pass
\* ends with IdsUnavailableProblem, and IdsUnavailableProblem comes only
\* then and with no document inserted.
C12_InsertRetries ==
  [][\A h \in Handlers :
       LET c == creating[h]
           d == creating'[h]
           dup == DuplicateKeyError(docs, c.run_id, uuid(docs))
       IN (c # d /\ c.pc \in {"mkdir", "insert"}) =>
            /\ PassOf(c) <= DbInsertAttempts
            /\ c.dups < PassOf(c)
            /\ resp'.exc = "IdsUnavailableProblem"
                 => docs' = docs /\ PassOf(c) = DbInsertAttempts
            /\ (c.pc = "insert" /\ ~dup)
                 => /\ Len(docs') = Len(docs) + 1
                    /\ docs'[Len(docs')].run_id = c.run_id
                    /\ resp'.exc # "IdsUnavailableProblem"
            /\ (c.pc = "insert" /\ dup /\ PassOf(c) < DbInsertAttempts)
                 => d.pc = "mkdir" /\ docs' = docs
            /\ (c.pc = "insert" /\ dup /\ PassOf(c) = DbInsertAttempts)
                 => resp'.exc = "IdsUnavailableProblem" /\ docs' = docs]_vars

\* a handler whose inserts met db_insert_attempts - 1 duplicate keys has
\* made the directory of its last pass
C12_Witness ==
  \E h \in Handlers :
    /\ creating[h].pc = "insert"
    /\ creating[h].dups = DbInsertAttempts - 1
    /\ PassOf(creating[h]) = DbInsertAttempts

\* C13: a POST /runs request rejected by the form validation or by the
\* workflow type/version check has no side effects: no document is
\* inserted, no workspace directory is created, nothing is forwarded to the
\* upstream and no tracker is enqueued.
C13_RejectNoSideEffects ==
  [][(resp'.op = "run_workflow" /\ resp'.exc \in RejectReasons)
       => /\ resp'.upstream = None
          /\ UNCHANGED <<docs, dirs, inflight, tracker, cancel_requests>>]_vars

\* a request was rejected for its workflow type while an admitted run is
\* waiting to be forwarded and another is tracked
C13_Witness ==
  /\ resp.op = "run_workflow" /\ resp.exc = "NoSuitableEngine"
  /\ resp.status = 400
  /\ inflight # {} /\ DOMAIN tracker # {}

\* C14: when POST /runs returns 200 with {run_id}, a document whose
\* run_log.run_id is the returned id is persisted, its wes_endpoint.run_id
\* holds the remote run id and the tracker of its task is enqueued; the
\* returned id is the local one, not the remote one.
C14_AdmittedBeforeReturn ==
  (resp.op = "run_workflow" /\ resp.status = 200)
  => \E i \in 1..Len(docs) :
       /\ docs[i].run_id = resp.body_run_id
       /\ docs[i].wes_run_id = RemoteRunId(docs[i].task_id)
       /\ docs[i].task_id \in DOMAIN tracker
       /\ resp.body_run_id # docs[i].wes_run_id

\* POST /runs has just returned 200 for a run whose tracker has not started
C14_Witness ==
  /\ resp.op = "run_workflow" /\ resp.status = 200
  /\ \E i \in 1..Len(docs) :
       /\ docs[i].run_id = resp.body_run_id
       /\ docs[i].task_id \in DOMAIN tracker
       /\ tracker[docs[i].task_id].pc = "queued"
       /\ docs[i].state = "UNKNOWN"

\* C15: service-info round trip: the get_service_info that follows a
\* set_service_info(x) returns x (with the system_state_counts), whatever
\* was set before.
C15_ServiceInfoRoundTrip ==
  [][(info_resp.op = "set_service_info" /\ GetServiceInfo)
       => /\ info_resp'.status = 200
          /\ info_resp'.data = info_resp.data]_vars

\* the state counts of the run documents as they are
CountOf(state) == Cardinality({i \in 1..Len(docs) : docs[i].state = state})

RECURSIVE SumOver(_, _)
SumOver(f, S) ==
  IF S = {} THEN 0
  ELSE LET x == CHOOSE x \in S : TRUE IN f[x] + SumOver(f, S \ {x})

\* C16: the system_state_counts get_service_info returns have an entry for
\* each of the ten states, each the number of run documents in that state,
\* and they sum to the number of run documents.
C16_StateCounts ==
  [][(service_info # <<>> /\ GetServiceInfo)
       => /\ info_resp'.exc = None
          /\ DOMAIN info_resp'.counts = ALL
          /\ \A state \in ALL : info_resp'.counts[state] = CountOf(state)
          /\ SumOver(info_resp'.counts, ALL) = Len(docs)]_vars

\* C17: set_service_info is idempotent: a second call with the payload of
\* the call before leaves the service_info collection as it was.
C17_SetIdempotent ==
  [][\A x \in Payloads :
       (info_resp.op = "set_service_info" /\ info_resp.data = x
          /\ SetServiceInfo(x))
       => service_info' = service_info]_vars

\* the payload set last replaced the older of two documents, which holds
\* it now
C17_Witness ==
  /\ info_resp.op = "set_service_info"
  /\ Len(service_info) = 2
  /\ service_info[1].data = info_resp.data

\* C18: cancel_run never modifies a run document, whether the upstream
\* accepts or rejects the cancel; run_log.state of a persisted document
\* changes only in a step of its tracker.
C18_CancelLeavesDocuments ==
  [][/\ (\E r \in IdSpace, u \in Requesters : CancelRun(r, u)) => docs' = docs
     /\ \A i \in 1..Len(docs) :
          docs'[i].state # docs[i].state
          => \/ TrackerStart(docs[i].task_id)
             \/ \E a \in BOOLEAN : TrackerGetRun(docs[i].task_id, a)]_vars

\* the upstream has just answered a cancel with an ErrorResponse, for a run
\* whose tracker has written INITIALIZING
C18_Witness ==
  /\ resp.op = "cancel_run" /\ resp.upstream = "ErrorResponse"
  /\ \E i \in 1..Len(docs) :
       /\ docs[i].run_id = resp.run_id
       /\ docs[i].state = "INITIALIZING"
       /\ docs[i].wes_run_id \in cancel_requests

\* C19: cancellation interleaved with tracking: after cancel_run has
\* returned {run_id} and the upstream has received the cancel for the
\* remote run, the tracker mirrors the state the upstream reports and ends
\* normally with the document in a finished state (CANCELED).
C19_CancelThenTrackerFinishes ==
  \A t \in DOMAIN tracker :
    (/\ RemoteRunId(t) \in cancel_requests
     /\ resp.op = "cancel_run" /\ resp.status = 200
     /\ tracker[t].pc = "terminated"
     /\ tracker[t].exc # "EngineUnavailable")
    => tracker[t].exc = None /\ StateOf(t) = "CANCELED"

\* the status the client is to see for an ErrorResponse of the upstream
MappedStatus(code) == IF code \in {400, 401, 403} THEN code ELSE 500

\* C20: an ErrorResponse the forward of POST /runs returns reaches the
\* client by its status code: 400 as BadRequest, 401 as Unauthorized, 403
\* as Forbidden, any other code as an internal server error (500).
C20_UpstreamErrorMapped ==
  (resp.op = "run_workflow" /\ resp.upstream = "ErrorResponse")
  => resp.status = MappedStatus(resp.upstream_code)

\* C21: every termination of the tracker caused by an error inside it
\* (upstream unavailable, invalid upstream response, missing remote run id,
\* failed log mirror) leaves run_log.state of its document at SYSTEM_ERROR.
C21_TrackerErrorIsSystemError ==
  \A t \in DOMAIN tracker :
    (tracker[t].pc = "terminated" /\ tracker[t].exc # None)
    => StateOf(t) = "SYSTEM_ERROR"

\* C22: when the soft time limit of a tracker fires, the tracker terminates
\* and writes nothing further: the step of the time limit leaves every
\* document as it is, and from then on run_log.state of the tracker's
\* document stays what it was when the limit fired.
C22_TimeLimitWritesNothing ==
  [][/\ \A t \in DOMAIN tracker : TrackerSoftTimeLimit(t) => docs' = docs
     /\ \A t \in DOMAIN tracker :
          tracker[t].exc = "SoftTimeLimitExceeded"
          => /\ tracker'[t] = tracker[t]
             /\ docs'[FindByTaskId(docs', t)].state = StateOf(t)]_vars

\* the time limit has fired in a tracker that had written INITIALIZING, and
\* another run has been admitted and tracked since
C22_Witness ==
  \E t, u \in DOMAIN tracker :
    /\ t # u
    /\ tracker[t].exc = "SoftTimeLimitExceeded"
    /\ StateOf(t) = "INITIALIZING"
    /\ tracker[u].pc = "terminated" /\ tracker[u].exc = "AttributeError"
    /\ u > t

C24_WorkDirExists ==
  [][/\ \A i \in 1..Len(docs') :
          ~is_finished(docs'[i].state) => docs'[i].run_id \in dirs'
     /\ \A i \in 1..Len(docs') :
          i > Len(docs) => docs'[i].run_id \in dirs
     /\ \A i \in 1..Len(docs) :
          docs[i].run_id \in dirs => docs[i].run_id \in dirs']_vars

\* a handler whose mkdir met the directory of a persisted run is in its
\* next pass, while the documents of a tracked run and of a run that ended
\* in SYSTEM_ERROR are there with their directories
C24_Witness ==
  /\ \E h \in Handlers : creating[h].pc = "mkdir" /\ creating[h].attempt > 1
  /\ \E i, j \in 1..Len(docs) :
       /\ docs[i].state = "INITIALIZING" /\ docs[i].run_id \in dirs
       /\ docs[j].state = "SYSTEM_ERROR" /\ docs[j].run_id \in dirs

\* C25: update_run_state called with a value that is none of the ten states
\* fails with an error and leaves every document unchanged; called with a
\* state it sets run_log.state of the document of the connector's task_id
\* to it.
C25_UpdateRunStateValidates ==
  [][\A t \in IdSpace, s \in StateArguments :
       UpdateRunState(t, s)
       => IF s \in ALL
          THEN /\ resp'.exc = None
               /\ FindByTaskId(docs, t) # 0 => docs'[FindByTaskId(docs, t)].state = s
          ELSE /\ resp'.exc = "ValueError"
               /\ docs' = docs]_vars

\* update_run_state has just refused a value for a task whose document is
\* in RUNNING
C25_Witness ==
  /\ resp.op = "update_run_state" /\ resp.exc = "ValueError"
  /\ resp.body_state = "State.RUNNING"
  /\ FindByTaskId(docs, resp.body_run_id) # 0
  /\ StateOf(resp.body_run_id) = "RUNNING"

\* the document of a task
DocOf(ds, task_id) == ds[FindByTaskId(ds, task_id)]

\* C26: partial updates of one document on disjoint fields, in any order,
\* lose no write: every update sets the field it addresses and leaves the
\* other fields of the document as the earlier updates wrote them.
C26_NoLostWrite ==
  [][\A t \in IdSpace :
       FindByTaskId(docs, t) # 0 =>
         LET old == DocOf(docs, t)
             new == DocOf(docs', t)
         IN /\ \A s \in StateArguments :
                 UpdateRunState(t, s)
                 => /\ new.wes_run_id = old.wes_run_id
                    /\ new.outputs = old.outputs
                    /\ s \in ALL => new.state = s
            /\ UpsertWesEndpoint(t, RemoteRunId(t))
                 => /\ new.state = old.state
                    /\ new.outputs = old.outputs
                    /\ new.wes_run_id = RemoteRunId(t)
            /\ \A o \in OutputValues :
                 UpsertRunLog(t, o)
                 => /\ new.state = old.state
                    /\ new.wes_run_id = old.wes_run_id
                    /\ new.outputs = o]_vars

\* the upsert of wes_endpoint.run_id has just been made on a document whose
\* run_log.state and run_log.outputs had been written before, and all three
\* are there
C26_Witness ==
  /\ resp.op = "upsert_wes_endpoint" /\ resp.exc = None
  /\ LET d == DocOf(docs, resp.body_run_id) IN
     /\ d.state = "RUNNING"
     /\ d.outputs = "o1"
     /\ d.wes_run_id = RemoteRunId(resp.body_run_id)

\* C27: state classification: finished is {COMPLETE, EXECUTOR_ERROR,
\* SYSTEM_ERROR, CANCELED}, cancelable is {QUEUED, INITIALIZING, RUNNING,
\* PAUSED}, unfinished is cancelable plus CANCELING; finished, unfinished
\* and {UNKNOWN} are pairwise disjoint and cover the ten states;
\* State.is_finished and State.is_cancelable agree with States.FINISHED and
\* States.CANCELABLE on every state, so on the state of every document.
C27_StateClassification ==
  /\ Members(FINISHED) =
       {"COMPLETE", "EXECUTOR_ERROR", "SYSTEM_ERROR", "CANCELED"}
  /\ Members(CANCELABLE) = {"QUEUED", "INITIALIZING", "RUNNING", "PAUSED"}
  /\ Members(UNFINISHED) = Members(CANCELABLE) \cup {"CANCELING"}
  /\ Members(FINISHED) \cap Members(UNFINISHED) = {}
  /\ Members(FINISHED) \cap Members(UNDEFINED) = {}
  /\ Members(UNFINISHED) \cap Members(UNDEFINED) = {}
  /\ Members(UNDEFINED) = {"UNKNOWN"}
  /\ Members(FINISHED) \cup Members(UNFINISHED) \cup Members(UNDEFINED) = ALL
  /\ Cardinality(ALL) = 10 /\ Len(FINISHED \o UNFINISHED \o UNDEFINED) = 10
  /\ \A s \in ALL :
       /\ is_finished(s) <=> s \in Members(FINISHED)
       /\ is_cancelable(s) <=> s \in Members(CANCELABLE)
  /\ \A i \in 1..Len(docs) :
       /\ docs[i].state \in ALL
       /\ is_finished(docs[i].state) <=> docs[i].state \in Members(FINISHED)
       /\ is_cancelable(docs[i].state)
            <=> docs[i].state \in Members(CANCELABLE)

\* documents in an undefined, a cancelable and a finished state
C27_Witness ==
  \E i, j \in 1..Len(docs) :
    /\ docs[i].state = "INITIALIZING" /\ is_cancelable(docs[i].state)
    /\ docs[j].state = "SYSTEM_ERROR" /\ is_finished(docs[j].state)

\* C28: at most one service-info document exists after any sequence of
\* set_service_info calls, whatever the payloads and their `id` values:
\* each call replaces the singleton.
C28_ServiceInfoSingleton == Len(service_info) <= 1

\* C29: a tracker is enqueued for a run exactly when its forward returned a
\* RunId: once, under the task_id of the document, and with
\* wes_endpoint.run_id already written; a forward that raised
\* EngineUnavailable or was answered with an ErrorResponse enqueues none and
\* leaves wes_endpoint.run_id unset; a tracker that has started is not
\* queued again.
C29_TrackerEnqueuedOnRunId ==
  [][/\ \A t \in DOMAIN tracker' :
          t \notin DOMAIN tracker
          => /\ resp'.op = "run_workflow" /\ resp'.upstream = "RunId"
             /\ t \in inflight /\ t \notin inflight'
             /\ FindByTaskId(docs', t) # 0
             /\ DocOf(docs', t).wes_run_id = RemoteRunId(t)
             /\ tracker'[t].pc = "queued"
             /\ DOMAIN tracker' = DOMAIN tracker \cup {t}
     /\ \A t \in inflight, out \in ForwardOutcomes :
          RunWorkflowForward(t, out)
          => IF out.kind = "RunId"
             THEN t \in DOMAIN tracker' /\ t \notin DOMAIN tracker
             ELSE /\ tracker' = tracker
                  /\ DocOf(docs', t).wes_run_id = NoId
     /\ \A t \in DOMAIN tracker :
          /\ t \in DOMAIN tracker'
          /\ tracker[t].pc # "queued" => tracker'[t].pc # "queued"]_vars

\* one run has been forwarded and its tracker has ended; the forward of
\* another has just been answered with an ErrorResponse, and no tracker is
\* there for it
C29_Witness ==
  /\ resp.op = "run_workflow" /\ resp.upstream = "ErrorResponse"
  /\ \E t \in DOMAIN tracker : tracker[t].pc = "terminated"
  /\ \E i \in 1..Len(docs) :
       /\ docs[i].run_id = resp.run_id
       /\ docs[i].task_id \notin DOMAIN tracker
       /\ docs[i].task_id \notin inflight
       /\ docs[i].wes_run_id = NoId

\* the number of polls at the end of the sequence that failed, i.e. that did
\* not give a RunStatus
RECURSIVE FailedInARow(_)
FailedInARow(polls) ==
  IF polls = <<>> \/ polls[Len(polls)].kind = "RunStatus" THEN 0
  ELSE 1 + FailedInARow(SubSeq(polls, 1, Len(polls) - 1))

\* C30: in the polling loop a successful status response resets the failure
\* counter, so only consecutive failures count toward polling_attempts:
\* SYSTEM_ERROR is written only when polling_attempts polls in a row have
\* failed, and after a successful poll the counter is at its initial value.
C30_SuccessResetsCounter ==
  /\ (poll.written # <<>> /\ poll.written[Len(poll.written)] = "SYSTEM_ERROR")
       => FailedInARow(poll.polls) >= PollingAttempts
  /\ (poll.polls # <<>> /\ poll.polls[Len(poll.polls)].kind = "RunStatus")
       => poll.attempt = 1

\* the last element of a non-empty sequence
Last(seq) == seq[Len(seq)]

\* C31: if every status poll of a tracker fails (EngineUnavailable, or a
\* response that is no RunStatus), the tracker makes at most
\* polling_attempts polls and then terminates with SYSTEM_ERROR written.
C31_FailingPollsBounded ==
  (\A i \in 1..Len(poll.polls) :
     poll.polls[i].kind \in {"EngineUnavailable", "ErrorResponse"})
  => /\ Len(poll.polls) <= PollingAttempts
     /\ Len(poll.polls) = PollingAttempts
          => /\ poll.pc = "terminated"
             /\ poll.written # <<>> /\ Last(poll.written) = "SYSTEM_ERROR"

C33_MirrorUnavailable ==
  [][\A t \in DOMAIN tracker :
       /\ TrackerGetRun(t, FALSE)
            => /\ DocOf(docs', t).state = "SYSTEM_ERROR"
               /\ tracker'[t] = [pc |-> "terminated",
                                 exc |-> "EngineUnavailable"]
       /\ tracker[t].exc = "EngineUnavailable"
            => /\ tracker'[t] = tracker[t]
               /\ StateOf(t) = "SYSTEM_ERROR"
               /\ DocOf(docs', t).state = "SYSTEM_ERROR"]_vars

\* the initial mirror of one run has met an unavailable upstream, and the
\* tracker of a run admitted later has gone past its get_run
C33_Witness ==
  \E t, u \in DOMAIN tracker :
    /\ t < u
    /\ tracker[t].exc = "EngineUnavailable" /\ StateOf(t) = "SYSTEM_ERROR"
    /\ tracker[u].exc = "AttributeError" /\ StateOf(u) = "INITIALIZING"

\* C34: the tracker is idempotent at the document level: when the task of a
\* tracker that has ended is executed a second time, run_log.state never
\* leaves the finished state the first execution reached, so no step
\* changes the state of a document that is in a finished state.
C34_RedeliveryIdempotent ==
  [][\A t \in DOMAIN tracker :
       is_finished(StateOf(t))
       => /\ t \in DOMAIN tracker'
          /\ DocOf(docs', t).state = StateOf(t)]_vars

HeldByHandlers == {creating[h].run_id : h \in {g \in Handlers : creating[g].pc = "insert"}}

\* C36: workspace cleanup on collision: the directory made for an attempt
\* whose insert met a duplicate key is removed before the next attempt; a
\* directory that already existed is neither removed nor reused, it only
\* consumes an attempt; so every directory under storage_path that no
\* handler is about to insert for belongs to exactly one persisted
\* document.
C36_CleanupOnCollision ==
  [][/\ \A h \in Handlers :
          LET c == creating[h]
              d == creating'[h]
          IN /\ (c.pc = "insert" /\ d # c
                 /\ DuplicateKeyError(docs, c.run_id, uuid(docs)))
                  => /\ c.run_id \notin dirs'
                     /\ dirs' = dirs \ {c.run_id}
                     /\ docs' = docs
                     /\ d.pc \in {"mkdir", "idle"}
             /\ (c.pc = "mkdir" /\ d # c /\ d.pc # "insert")
                  => /\ dirs' = dirs /\ docs' = docs
                     /\ PassOf(d) = PassOf(c) + 1 \/ d = IdleHandler
     /\ \A r \in dirs' \ HeldByHandlers' :
          Cardinality({i \in 1..Len(docs') : docs'[i].run_id = r}) = 1]_vars

\* the insert of a handler has met a duplicate key while the directories of
\* two persisted runs exist: its directory has been removed, theirs are
\* there
C36_Witness ==
  /\ \E h \in Handlers : creating[h].dups > 0
  /\ Len(docs) = 2
  /\ \A i \in 1..Len(docs) : docs[i].run_id \in dirs

\* a step changes at most `field` of the document of task_id, and nothing
\* of any other document
ChangesOnly(task_id, field) ==
  /\ Len(docs') = Len(docs)
  /\ \A i \in 1..Len(docs) :
       IF docs[i].task_id = task_id
       THEN \A f \in DOMAIN docs[i] \ {field} : docs'[i][f] = docs[i][f]
       ELSE docs'[i] = docs[i]

\* C37: a connector bound to task_id T changes only the document whose
\* task_id is T: update_run_state and upsert_fields_in_root_object leave
\* the documents of the other tasks unchanged and, in the document of T,
\* every field but the addressed one, whatever the order of the calls.
C37_ConnectorWritesOwnDocument ==
  [][\A t \in IdSpace :
       /\ (\E s \in StateArguments : UpdateRunState(t, s))
            => ChangesOnly(t, "state")
       /\ UpsertWesEndpoint(t, RemoteRunId(t)) => ChangesOnly(t, "wes_run_id")
       /\ (\E o \in OutputValues : UpsertRunLog(t, o))
            => ChangesOnly(t, "outputs")]_vars

\* update_run_state has just written RUNNING for one task while the
\* document of another task, whose outputs had been upserted, has the state
\* of its insertion
C37_Witness ==
  /\ resp.op = "update_run_state" /\ resp.exc = None
  /\ \E i, j \in 1..Len(docs) :
       /\ docs[i].task_id = resp.body_run_id /\ docs[i].state = "RUNNING"
       /\ docs[j].task_id # resp.body_run_id
       /\ docs[j].state = "UNKNOWN" /\ docs[j].outputs = "o1"

\* C38: list_runs called with user_id U returns only runs whose owner is
\* exactly U, neither runs of other owners nor ownerless runs, and called
\* without user_id returns the runs of every owner.
C38_OwnerFilter ==
  pager.phase # "idle"
  => LET returned == {pager.acc[k] : k \in 1..Len(pager.acc)}
         present == 1..pager.snapshot
     IN /\ pager.user_id # None
             => /\ \A r \in returned :
                     \E i \in 1..Len(docs) :
                       docs[i].run_id = r /\ docs[i].user_id = pager.user_id
                /\ pager.phase = "done"
                     => \A i \in present :
                          docs[i].user_id = pager.user_id
                          => docs[i].run_id \in returned
        /\ (pager.user_id = None /\ pager.phase = "done")
             => \A i \in present : docs[i].run_id \in returned

\* a finished traversal for "alice" returned a run while the collection
\* held an ownerless run from the start
C38_Witness ==
  /\ pager.phase = "done" /\ pager.user_id = "alice"
  /\ Len(pager.acc) > 0
  /\ \E i \in 1..pager.snapshot : docs[i].user_id = None

\* C39: paging under concurrent admissions: with runs inserted between the
\* page requests of a traversal, no run is returned on two pages, no run
\* that existed when the first page was requested is skipped, and the runs
\* inserted after the first page are not returned by that traversal.
C39_PagingUnderAdmissions ==
  pager.phase # "idle"
  => LET pos == 1..Len(pager.acc)
         MatchesAt(i) == pager.user_id # None
                           => docs[i].user_id = pager.user_id
     IN /\ \A j, k \in pos : j # k => pager.acc[j] # pager.acc[k]
        /\ \A k \in pos :
             \E i \in 1..pager.snapshot : docs[i].run_id = pager.acc[k]
        /\ \A i \in (pager.snapshot + 1)..Len(docs) :
             \A k \in pos : pager.acc[k] # docs[i].run_id
        /\ pager.phase = "done"
             => \A i \in 1..pager.snapshot :
                  MatchesAt(i) => \E k \in pos : pager.acc[k] = docs[i].run_id

\* a traversal ended on a page requested after a run had been inserted
\* since its first page, and returned the run that was there at the start
C39_Witness ==
  /\ pager.phase = "done"
  /\ pager.seen > pager.snapshot
  /\ Len(pager.acc) > 0

\* C40: cancel_run reports success ({run_id}, HTTP 200) to the client only
\* if the upstream answered the cancel with a RunId; when the upstream is
\* unreachable or answers with an ErrorResponse, cancel_run fails with an
\* error and returns no {run_id}.
C40_CancelSuccessOnlyOnRunId ==
  (resp.op = "cancel_run" /\ resp.upstream # None)
  => /\ resp.status = 200 => resp.upstream = "RunId"
     /\ resp.upstream \in {"EngineUnavailable", "ErrorResponse"}
          => resp.status # 200 /\ resp.body_run_id = NoId

====
